---- MODULE Spec2Model ----
(***************************************************************************)
(* A model of reactive-function (src/index.js): reactive properties are    *)
(* nodes of a singleton dependency graph, reactive functions add edges,    *)
(* listeners and an evaluate closure, and digest propagates changes in     *)
(* topological order.                                                      *)
(***************************************************************************)
EXTENDS Integers, Sequences, FiniteSets, TLC

\* ------------------------------------------------------------------ values
\* JavaScript values a property may hold.  Numbers are 0 .. MaxVal-1; the
\* three special values are kept apart from them by negative codes.
UNDEF == -1
NULL == -2
FALSE_ == -3

\* Numbers the callbacks of the model compute with (results are % MaxVal).
MaxVal == 2

Numbers == 0 .. (MaxVal - 1)
Values == {UNDEF, NULL, FALSE_} \cup Numbers

\* JavaScript ToNumber on the values of the model: null and false are 0.
ToNumber(v) == IF v < 0 THEN 0 ELSE v

\* A loose comparison (obj == undefined), which null satisfies too.
IsUndefinedLoose(obj) == obj \in {UNDEF, NULL}

\* isUndefined(obj): obj === void 0
IsUndefined(obj) == obj = UNDEF

\* defined(arr): !arr.some(isUndefined)
Defined(arr) == ~ \E i \in 1 .. Len(arr) : IsUndefined(arr[i])

\* ------------------------------------------------------------------ helpers
RECURSIVE SeqSum(_)
SeqSum(s) == IF s = <<>> THEN 0 ELSE ToNumber(Head(s)) + SeqSum(Tail(s))

Reverse(s) == [i \in 1 .. Len(s) |-> s[Len(s) + 1 - i]]

SeqRange(s) == {s[i] : i \in 1 .. Len(s)}

RECURSIVE Without(_, _)
\* array.filter(x => x !== e)
Without(s, e) ==
  IF s = <<>> THEN <<>>
  ELSE IF Head(s) = e THEN Without(Tail(s), e)
       ELSE <<Head(s)>> \o Without(Tail(s), e)

RECURSIVE Ascending(_)
\* Object.keys of an object with integer-like keys: ascending numeric order.
Ascending(S) ==
  IF S = {} THEN <<>>
  ELSE LET m == CHOOSE x \in S : \A y \in S : x <= y
       IN <<m>> \o Ascending(S \ {m})

\* ------------------------------------------------------------------ callbacks
\* The combining functions the scenarios use.
\*   "id"   function (x){ return x; }            (ReactiveFunction.link)
\*   "inc"  function (x){ return (x + 1) % MaxVal; }
\*   "sum"  function (x, y, ...){ return (x + y + ...) % MaxVal; }
\*   "none" function (){ }                       (returns undefined)
\*   "throw" function (){ throw new Error(); }   (see Evaluate)
Apply(cb, values) ==
  CASE cb = "id" -> values[1]
    [] cb = "inc" -> (ToNumber(values[1]) + 1) % MaxVal
    [] cb = "sum" -> SeqSum(values) % MaxVal
    [] OTHER -> UNDEF

\* ------------------------------------------------------------------ state
VARIABLES
  scn,        \* the program under analysis: its properties (init), the options of
              \* its reactive functions (defs), the properties it sets (settable)
              \* to the values (vals), the reactive functions it destroys
              \* (destroyed), and whether the graph library it is built with
              \* reports cycles (cycleError)
  value,      \* value[p]: the value held by reactive property p
  ids,        \* ids[p]: property.id, 0 while none is assigned
  counter,    \* assignId's counter
  nodes,      \* the graph's nodes (keys of its adjacency map)
  edges,      \* edges[u]: the graph's adjacency list of node u, in insertion order
  listeners,  \* listeners[p]: the listeners subscribed on p, <<binding, input index>>
  evaluate,   \* evaluate[p]: the reactive function whose closure is p.evaluate, 0 if none
  live,       \* live[b]: "none" (not constructed), "live", "destroyed"
  changed,    \* ids of the properties changed since the last digest
  queued,     \* debounce's flag
  timers,     \* callbacks handed to nextFrame that have not run yet
  log,        \* the evaluate calls of the latest digest pass, in order
  seed,       \* the changed ids the latest digest pass started from
  pending,    \* the properties set from outside since the latest pass
  passIn,     \* pending as it was when the latest pass started
  heard,      \* reactive functions a listener of which such a set has called
  heardIn,    \* heard as it was when the latest pass started
  built,      \* reactive functions constructed since the latest pass while no
              \* input of theirs was undefined, and no input of which was set since
  passes,     \* digest passes run since the last change made from outside (capped)
  clean,      \* none of those passes threw
  err         \* the latest operation ended by throwing

vars == <<scn, value, ids, counter, nodes, edges, listeners, evaluate, live,
          changed, queued, timers, log, seed, pending, passIn, heard, heardIn,
          built, passes, clean, err>>

\* What the model records about the latest pass and the sets before it.
history == <<seed, pending, passIn, heard, heardIn>>

\* passes counts up to here.
MaxPasses == 2

Props == 1 .. Len(scn.init)
Bindings == 1 .. Len(scn.defs)
Inputs(b) == scn.defs[b].inputs
Output(b) == scn.defs[b].output
Callback(b) == scn.defs[b].cb

\* The mutable state as one record, so that the statements of a handler compose.
St ==
  [value |-> value, ids |-> ids, counter |-> counter, nodes |-> nodes,
   edges |-> edges, listeners |-> listeners, evaluate |-> evaluate,
   changed |-> changed, queued |-> queued, timers |-> timers, log |-> log,
   err |-> FALSE]

Commit(g) ==
  /\ value' = g.value
  /\ ids' = g.ids
  /\ counter' = g.counter
  /\ nodes' = g.nodes
  /\ edges' = g.edges
  /\ listeners' = g.listeners
  /\ evaluate' = g.evaluate
  /\ changed' = g.changed
  /\ queued' = g.queued
  /\ timers' = g.timers
  /\ log' = g.log
  /\ err' = g.err

\* ------------------------------------------------------------------ graph
\* graph-data-structure as index.js uses it: an adjacency list per node.
AddEdge(g, u, v) ==
  [g EXCEPT !.nodes = @ \cup {u, v}, !.edges[u] = Append(@, v)]

\* removeEdge with its arguments swapped.
RemoveEdgeReversed(g, u, v) ==
  [g EXCEPT !.edges[v] = Without(@, u)]

RemoveEdge(g, u, v) ==
  [g EXCEPT !.edges[u] = Without(@, v)]

RECURSIVE Count(_, _)
Count(s, e) ==
  IF s = <<>> THEN 0 ELSE (IF Head(s) = e THEN 1 ELSE 0) + Count(Tail(s), e)

RECURSIVE SumOver(_, _, _)
SumOver(S, f, e) ==
  IF S = {} THEN 0
  ELSE LET x == CHOOSE y \in S : TRUE
       IN Count(f[x], e) + SumOver(S \ {x}, f, e)

Indegree(g, node) == SumOver(DOMAIN g.edges, g.edges, node)

Outdegree(g, node) == Len(g.edges[node])

RemoveNode(g, node) ==
  [g EXCEPT !.nodes = @ \ {node},
            !.edges = [u \in DOMAIN g.edges |->
                         IF u = node THEN <<>> ELSE Without(g.edges[u], node)]]

RECURSIVE DFSVisit(_, _, _)
RECURSIVE DFSVisitAll(_, _, _)
\* A visit that lists the node before the nodes it leads to.
DFSVisitPreorder(g, node, d) ==
  IF node \in d.visited THEN d
  ELSE DFSVisitAll(g, g.edges[node],
                   [d EXCEPT !.visited = @ \cup {node}, !.nodeList = Append(@, node)])

\* depthFirstSearch's DFSVisit: d = [visited, nodeList].
DFSVisit(g, node, d) ==
  IF node \in d.visited THEN d
  ELSE LET d1 == [d EXCEPT !.visited = @ \cup {node}]
           d2 == DFSVisitAll(g, g.edges[node], d1)
       IN [d2 EXCEPT !.nodeList = Append(@, node)]

DFSVisitAll(g, list, d) ==
  IF list = <<>> THEN d
  ELSE DFSVisitAll(g, Tail(list), DFSVisit(g, Head(list), d))

RECURSIVE DFSFromSourcesUnmarked(_, _, _)
\* A search that forgets, from one source node to the next, which nodes it has
\* marked visited (the source nodes among them).
DFSFromSourcesUnmarked(g, sourceNodes, d) ==
  IF sourceNodes = <<>> THEN d
  ELSE DFSFromSourcesUnmarked(g, Tail(sourceNodes),
                              DFSVisitAll(g, g.edges[Head(sourceNodes)],
                                          [d EXCEPT !.visited = {}]))

RECURSIVE DFSFromSources(_, _, _)
DFSFromSources(g, sourceNodes, d) ==
  IF sourceNodes = <<>> THEN d
  ELSE DFSFromSources(g, Tail(sourceNodes),
                      DFSVisitAll(g, g.edges[Head(sourceNodes)], d))

\* A sort that forgets to reverse the post-order.
TopologicalSortUnreversed(g, sourceNodes) ==
  DFSFromSources(g, sourceNodes,
                 [visited |-> SeqRange(sourceNodes), nodeList |-> <<>>]).nodeList

\* A sort that keeps the source nodes (includeSourceNodes left at its default).
TopologicalSortWithSources(g, sourceNodes) ==
  Reverse(DFSVisitAll(g, sourceNodes, [visited |-> {}, nodeList |-> <<>>]).nodeList)

\* graph.topologicalSort(sourceNodes, false): the source nodes are marked visited
\* and left out; the rest is the reversed depth-first post-order.
TopologicalSort(g, sourceNodes) ==
  Reverse(DFSFromSources(g, sourceNodes,
                         [visited |-> SeqRange(sourceNodes), nodeList |-> <<>>]).nodeList)

\* The nodes adjacent to the nodes of S.
Adjacent(g, S) == UNION {SeqRange(g.edges[u]) : u \in S}

RECURSIVE Reached(_, _, _)
\* The nodes a depth-first search visits from the nodes of S when the source
\* nodes are marked visited beforehand.
Reached(g, S, sources) ==
  LET T == S \cup (Adjacent(g, S) \ sources)
  IN IF T = S THEN S ELSE Reached(g, T, sources)

\* Releases of the graph library that report cycles: topologicalSort throws when
\* its search meets a node it is still visiting, which happens exactly when a
\* node it visits leads back to itself without passing a source node.
CycleFound(g, sourceNodes) ==
  LET sources == SeqRange(sourceNodes)
  IN \E n \in Reached(g, Adjacent(g, sources) \ sources, sources) :
       n \in Reached(g, Adjacent(g, {n}) \ sources, sources)

\* properties[id]
PropertyOf(g, id) == CHOOSE p \in DOMAIN g.ids : g.ids[p] = id

\* ------------------------------------------------------------------ scheduler
\* A debounce that schedules on every call.
QueueDigestUnguarded(g) == [g EXCEPT !.queued = TRUE, !.timers = @ + 1]

\* The function debounce returns: schedule the digest unless one is queued.
QueueDigest(g) ==
  IF ~ g.queued
    THEN [g EXCEPT !.queued = TRUE, !.timers = @ + 1]
    ELSE g

\* A listener that queues the digest and forgets to mark the property.
ListenerQueueOnly(g, property) == QueueDigest(g)

\* The change listener of an input property.
Listener(g, property) ==
  QueueDigest([g EXCEPT !.changed = @ \cup {g.ids[property]}])

RECURSIVE Notify(_, _, _)
\* The setter's loop over the listeners of a property.
Notify(g, property, n) ==
  IF n = 0 THEN g ELSE Listener(Notify(g, property, n - 1), property)

\* A setter that refuses to write a property that has an evaluate function.
PropertySetGuarded(g, property, newValue) ==
  IF g.evaluate[property] # 0
    THEN [g EXCEPT !.err = TRUE]
    ELSE Notify([g EXCEPT !.value[property] = newValue], property,
                Len(g.listeners[property]))

\* property(newValue): store the value, then call each listener.
PropertySet(g, property, newValue) ==
  Notify([g EXCEPT !.value[property] = newValue], property,
         Len(g.listeners[property]))

\* A subscription that never calls the new listener.
PropertyOnSilent(g, property, listener, fires) ==
  [g EXCEPT !.listeners[property] = Append(@, listener)]

\* property.on(listener): subscribe; the listener is called at once when the
\* property holds a value.  fires: whether it is (see OnFires).
PropertyOn(g, property, listener, fires) ==
  LET g1 == [g EXCEPT !.listeners[property] = Append(@, listener)]
  IN IF fires THEN Listener(g1, property) ELSE g1

\* Whether property.on calls the new listener at once: never for undefined,
\* always for a value; for null it depends on the reactive-property release.
OnFires(v) == IF v = UNDEF THEN {FALSE} ELSE IF v = NULL THEN {FALSE, TRUE} ELSE {TRUE}

\* assignId(property)
AssignId(g, property) ==
  IF g.ids[property] = 0
    THEN [g EXCEPT !.ids[property] = g.counter, !.counter = @ + 1]
    ELSE g

\* ------------------------------------------------------------------ reactive function
\* output.evaluate of reactive function b: read the inputs; if all are defined,
\* invoke the callback (with its side effect, if it has one) and set the output.
Evaluate(g, b) ==
  LET values == [i \in 1 .. Len(Inputs(b)) |-> g.value[Inputs(b)[i]]]
      effect == scn.defs[b].effect
      entry == [b |-> b, node |-> Output(b), args |-> values,
                called |-> Defined(values)]
      g0 == [g EXCEPT !.log = Append(@, entry)]
  IN IF Defined(values)
       THEN IF Callback(b) = "throw"
              THEN [g0 EXCEPT !.err = TRUE]
              ELSE LET g1 == IF effect = <<>> THEN g0
                             ELSE PropertySet(g0, effect[1], effect[2])
                   IN PropertySet(g1, Output(b), Apply(Callback(b), values))
       ELSE g0

RECURSIVE AssignIds(_, _)
\* inputs.forEach(assignId)
AssignIds(g, list) ==
  IF list = <<>> THEN g ELSE AssignIds(AssignId(g, Head(list)), Tail(list))

RECURSIVE AddEdges(_, _, _)
\* inputs.forEach(input => graph.addEdge(input.id, output.id))
AddEdges(g, list, output) ==
  IF list = <<>> THEN g
  ELSE AddEdges(AddEdge(g, g.ids[Head(list)], g.ids[output]), Tail(list), output)

RECURSIVE AddListeners(_, _, _, _)
\* inputs.map(property => property.on(listener)), from input index i on
AddListeners(g, b, i, fires) ==
  IF i > Len(Inputs(b)) THEN g
  ELSE AddListeners(PropertyOn(g, Inputs(b)[i], <<b, i>>, fires[i]), b, i + 1, fires)

\* ReactiveFunction(options) for the options of b, past the check of its inputs.
Constructor(g, b, fires) ==
  LET g1 == [g EXCEPT !.evaluate[Output(b)] = b]
      g2 == AssignIds(AssignId(g1, Output(b)), Inputs(b))
      g3 == AddEdges(g2, Inputs(b), Output(b))
  IN AddListeners(g3, b, 1, fires)

\* A constructor that checks its inputs after it has attached evaluate to the
\* output and assigned the output's id.
ReactiveFunctionLateCheck(g, b, fires) ==
  IF ~ Defined(Inputs(b))
    THEN [AssignId([g EXCEPT !.evaluate[Output(b)] = b], Output(b)) EXCEPT !.err = TRUE]
    ELSE Constructor(g, b, fires)

\* ReactiveFunction(options) for the options of b: an undefined entry in inputs
\* makes it throw before it does anything else.
ReactiveFunction(g, b, fires) ==
  IF ~ Defined(Inputs(b))
    THEN [g EXCEPT !.err = TRUE]
    ELSE Constructor(g, b, fires)

\* A destroy that leaves the listeners subscribed.
RemoveListenersMissing(g, b, i) == g

RECURSIVE RemoveListeners(_, _, _)
\* listeners.forEach((listener, i) => inputs[i].off(listener))
RemoveListeners(g, b, i) ==
  IF i > Len(Inputs(b)) THEN g
  ELSE RemoveListeners([g EXCEPT !.listeners[Inputs(b)[i]] = Without(@, <<b, i>>)],
                       b, i + 1)

RECURSIVE RemoveEdges(_, _, _)
\* inputs.forEach(input => graph.removeEdge(input.id, output.id))
RemoveEdges(g, list, output) ==
  IF list = <<>> THEN g
  ELSE RemoveEdges(RemoveEdge(g, g.ids[Head(list)], g.ids[output]), Tail(list), output)

RECURSIVE RemoveIsolated(_, _)
\* Remove the nodes of the listed properties that have no edge left.
RemoveIsolated(g, list) ==
  IF list = <<>> THEN g
  ELSE LET node == g.ids[Head(list)]
           g1 == IF Indegree(g, node) + Outdegree(g, node) = 0
                   THEN RemoveNode(g, node) ELSE g
       IN RemoveIsolated(g1, Tail(list))

\* destroy() of reactive function b.
Destructor(g, b) ==
  LET g1 == RemoveListeners(g, b, 1)
      g2 == RemoveEdges(g1, Inputs(b), Output(b))
      g3 == RemoveIsolated(g2, Inputs(b) \o <<Output(b)>>)
  IN [g3 EXCEPT !.evaluate[Output(b)] = 0]

\* ------------------------------------------------------------------ digest
RECURSIVE EvaluateAllContinue(_, _)
\* A forEach that catches what a callback throws and goes on with the next
\* property.
EvaluateAllContinue(g, order) ==
  IF order = <<>> THEN g
  ELSE LET property == PropertyOf(g, Head(order))
       IN IF g.evaluate[property] = 0
            THEN [g EXCEPT !.err = TRUE]
            ELSE EvaluateAllContinue(Evaluate(g, g.evaluate[property]), Tail(order))

RECURSIVE EvaluateAll(_, _)
\* The forEach of digest: property.evaluate() on each property of the order.  A
\* property without an evaluate function makes the call throw, and so may a
\* callback: either ends the pass.  h: the state the call leaves.
EvaluateAll(g, order) ==
  IF order = <<>> \/ g.err THEN g
  ELSE LET property == PropertyOf(g, Head(order))
       IN IF g.evaluate[property] = 0
            THEN [g EXCEPT !.err = TRUE]
            ELSE CHOOSE r \in {EvaluateAll(h, Tail(order)) :
                                 h \in {Evaluate(g, g.evaluate[property])}} : TRUE

\* A digest without its second "changed = {}".
ClearAfterPassMissing(g) == g

\* The second "changed = {}" of digest, which a throwing pass does not reach.
ClearAfterPass(g) == IF g.err THEN g ELSE [g EXCEPT !.changed = {}]

\* A digest without its first "changed = {}".
DigestKeepsChanged(g) ==
  LET changedIds == Ascending(g.changed)
      g1 == [g EXCEPT !.log = <<>>]
  IN ClearAfterPass(EvaluateAll(g1, TopologicalSort(g1, changedIds)))

\* ReactiveFunction.digest().  A cycle error of the sort ends the pass before
\* any evaluate call.  order: the sorted ids, computed before the forEach runs.
Digest(g) ==
  LET changedIds == Ascending(g.changed)
      g1 == [g EXCEPT !.changed = {}, !.log = <<>>]
  IN IF scn.cycleError /\ CycleFound(g1, changedIds)
       THEN [g1 EXCEPT !.err = TRUE]
       ELSE CHOOSE r \in {ClearAfterPass(EvaluateAll(g1, order)) :
                            order \in {TopologicalSort(g1, changedIds)}} : TRUE

PassCount == IF passes < MaxPasses THEN passes + 1 ELSE passes

DigestBookkeeping ==
  /\ seed' = Ascending(changed)
  /\ passIn' = pending
  /\ pending' = {}
  /\ heardIn' = heard
  /\ heard' = {}
  /\ built' = {}
  /\ passes' = PassCount
  /\ clean' = (clean /\ ~ err')

\* ------------------------------------------------------------------ actions
\* ReactiveFunction(options) with the options of b.
\* The program constructs its reactive functions in the order it lists them.
Construct(b) ==
  /\ live[b] = "none"
  /\ \A c \in 1 .. (b - 1) : live[c] # "none"
  /\ \E fires \in [1 .. Len(Inputs(b)) -> BOOLEAN] :
       /\ \A i \in 1 .. Len(Inputs(b)) :
            fires[i] \in IF Defined(Inputs(b)) THEN OnFires(value[Inputs(b)[i]])
                                              ELSE {FALSE}
       /\ Commit(ReactiveFunction(St, b, fires))
  /\ live' = IF err' THEN live ELSE [live EXCEPT ![b] = "live"]
  /\ built' = IF ~ err' /\ \A i \in 1 .. Len(Inputs(b)) : value[Inputs(b)[i]] # UNDEF
                THEN built \cup {b} ELSE built
  /\ passes' = 0
  /\ clean' = TRUE
  /\ UNCHANGED <<scn, history>>

\* reactiveFunction.destroy()
Destroy(b) ==
  /\ live[b] = "live"
  /\ b \in scn.destroyed
  /\ Commit(Destructor(St, b))
  /\ live' = [live EXCEPT ![b] = "destroyed"]
  /\ passes' = 0
  /\ clean' = TRUE
  /\ UNCHANGED <<scn, history, built>>

\* property(newValue), called by the application.
Set(property, newValue) ==
  /\ Commit(PropertySet(St, property, newValue))
  /\ pending' = pending \cup {property}
  /\ heard' = heard \cup {l[1] : l \in SeqRange(listeners[property])}
  /\ passes' = 0
  /\ clean' = TRUE
  /\ built' = {b \in built : property \notin SeqRange(Inputs(b))}
  /\ UNCHANGED <<scn, live, seed, passIn, heardIn>>

\* ReactiveFunction.digest(), called by the application.
ManualDigest ==
  /\ Commit(Digest(St))
  /\ DigestBookkeeping
  /\ UNCHANGED <<scn, live>>

\* The callback debounce handed to nextFrame runs: queued = false; callback().
Tick ==
  /\ timers > 0
  /\ \E g \in {Digest([St EXCEPT !.timers = @ - 1, !.queued = FALSE])} : Commit(g)
  /\ DigestBookkeeping
  /\ UNCHANGED <<scn, live>>

Next ==
  \/ \E b \in Bindings : Construct(b)
  \/ \E b \in Bindings : Destroy(b)
  \/ \E p \in scn.settable, v \in scn.vals : Set(p, v)
  \/ ManualDigest
  \/ Tick

\* ------------------------------------------------------------------ programs
Fn(inputs, output, cb) ==
  [inputs |-> inputs, output |-> output, cb |-> cb, effect |-> <<>>]

FnEffect(inputs, output, cb, effect) ==
  [inputs |-> inputs, output |-> output, cb |-> cb, effect |-> effect]

\* README "Tricky Case": a=1, b=2, c=3, d=4, e=5.
Diamond ==
  [name |-> "diamond",
   init |-> <<0, UNDEF, UNDEF, UNDEF, UNDEF>>,
   defs |-> <<Fn(<<1>>, 2, "inc"), Fn(<<2>>, 3, "inc"),
              Fn(<<1>>, 4, "id"), Fn(<<3, 4>>, 5, "sum")>>,
   settable |-> {1},
   destroyed |-> {1, 2, 3, 4},
   vals |-> Numbers,
   cycleError |-> FALSE]

\* README "ABC", one reactive function longer: a=1, b=2, c=3, d=4.
Chain ==
  [name |-> "chain",
   init |-> <<0, UNDEF, UNDEF, UNDEF>>,
   defs |-> <<Fn(<<1>>, 2, "inc"), Fn(<<2>>, 3, "inc"), Fn(<<3>>, 4, "id")>>,
   settable |-> {1, 2},
   destroyed |-> {1, 2, 3},
   vals |-> Numbers \cup {UNDEF},
   cycleError |-> FALSE]

\* README "Ohm's Law": V=1, I=2, R=3.
Ohm ==
  [name |-> "ohm",
   init |-> <<UNDEF, UNDEF, UNDEF>>,
   defs |-> <<Fn(<<2, 3>>, 1, "sum"), Fn(<<1, 3>>, 2, "sum"),
              Fn(<<1, 2>>, 3, "sum")>>,
   settable |-> {1, 2, 3},
   destroyed |-> {3},
   vals |-> Numbers,
   cycleError |-> FALSE]

\* A callback that sets another property: a=1, b=2, x=3, y=4.
Effect ==
  [name |-> "effect",
   init |-> <<UNDEF, UNDEF, UNDEF, UNDEF>>,
   defs |-> <<FnEffect(<<1>>, 2, "id", <<3, 1>>), Fn(<<3>>, 4, "id")>>,
   settable |-> {1, 3},
   destroyed |-> {1, 2},
   vals |-> Numbers,
   cycleError |-> FALSE]

\* One reactive function of three inputs: p=1, q=2, r=3, o=4.
Gate ==
  [name |-> "gate",
   init |-> <<NULL, UNDEF, UNDEF, UNDEF>>,
   defs |-> <<Fn(<<1, 2, 3>>, 4, "sum")>>,
   settable |-> {2, 3},
   destroyed |-> {1},
   vals |-> {UNDEF, NULL, FALSE_, 0},
   cycleError |-> FALSE]

\* Two reactive functions with one output, one with a throwing callback:
\* x=1, y=2, o=3, w=4, z=5.
Shared ==
  [name |-> "shared",
   init |-> <<UNDEF, 0, UNDEF, UNDEF, UNDEF>>,
   defs |-> <<Fn(<<1>>, 3, "id"), Fn(<<2>>, 3, "inc"), Fn(<<1>>, 4, "id"),
              Fn(<<4>>, 5, "throw")>>,
   settable |-> {1},
   destroyed |-> {1, 2},
   vals |-> Numbers,
   cycleError |-> FALSE]

\* Two reactive functions with the same input and the same output (two links
\* from a to b), a third after them, and a fourth that lists an undefined
\* input: a=1, b=2, c=3.
Twins ==
  [name |-> "twins",
   init |-> <<0, UNDEF, UNDEF>>,
   defs |-> <<Fn(<<1>>, 2, "id"), Fn(<<1>>, 2, "inc"), Fn(<<2>>, 3, "id"),
              Fn(<<1, UNDEF>>, 3, "sum")>>,
   settable |-> {1},
   destroyed |-> {1, 2},
   vals |-> Numbers,
   cycleError |-> FALSE]

\* README "Ohm's Law" with a fourth property computed from two of the three:
\* V=1, I=2, R=3, P=4.
Power ==
  [name |-> "power",
   init |-> <<UNDEF, UNDEF, UNDEF, UNDEF>>,
   defs |-> <<Fn(<<2, 3>>, 1, "sum"), Fn(<<1, 3>>, 2, "sum"),
              Fn(<<1, 2>>, 3, "sum"), Fn(<<1, 2>>, 4, "sum")>>,
   settable |-> {1, 2},
   destroyed |-> {4},
   vals |-> Numbers,
   cycleError |-> FALSE]

\* The same program built with a release of the graph library that reports
\* cycles.
PowerChecked == [Power EXCEPT !.cycleError = TRUE]

\* README "ABC" with properties that hold values from the start, as
\* ReactiveProperty(value) gives them: a=1, b=2, c=3.
Seeded ==
  [name |-> "seeded",
   init |-> <<0, 0, UNDEF>>,
   defs |-> <<Fn(<<1>>, 2, "inc"), Fn(<<2>>, 3, "inc")>>,
   settable |-> {1},
   destroyed |-> {1, 2},
   vals |-> Numbers,
   cycleError |-> FALSE]

\* Two reactive functions that feed each other and two that share an output,
\* the second of which is destroyed: a=1, b=2, o=3.
Loop ==
  [name |-> "loop",
   init |-> <<0, UNDEF, UNDEF>>,
   defs |-> <<Fn(<<1>>, 2, "inc"), Fn(<<2>>, 3, "id"), Fn(<<2>>, 1, "inc"),
              Fn(<<1>>, 3, "id")>>,
   settable |-> {1},
   destroyed |-> {4},
   vals |-> Numbers,
   cycleError |-> FALSE]

InitOf(program) ==
  /\ scn = program
  /\ value = program.init
  /\ ids = [p \in 1 .. Len(program.init) |-> 0]
  /\ counter = 1
  /\ nodes = {}
  /\ edges = [u \in 1 .. Len(program.init) |-> <<>>]
  /\ listeners = [p \in 1 .. Len(program.init) |-> <<>>]
  /\ evaluate = [p \in 1 .. Len(program.init) |-> 0]
  /\ live = [b \in 1 .. Len(program.defs) |-> "none"]
  /\ changed = {}
  /\ queued = FALSE
  /\ timers = 0
  /\ log = <<>>
  /\ seed = <<>>
  /\ pending = {}
  /\ passIn = {}
  /\ heard = {}
  /\ heardIn = {}
  /\ built = {}
  /\ passes = 0
  /\ clean = TRUE
  /\ err = FALSE

InitDiamond == InitOf(Diamond)

SpecDiamond == InitDiamond /\ [][Next]_vars

InitAcyclic == \E program \in {Diamond, Chain} : InitOf(program)

SpecAcyclic == InitAcyclic /\ [][Next]_vars

InitOhm == InitOf(Ohm)

SpecOhm == InitOhm /\ [][Next]_vars

InitEffect == InitOf(Effect)

SpecEffect == InitEffect /\ [][Next]_vars

InitGate == InitOf(Gate)

SpecGate == InitGate /\ [][Next]_vars

InitShared == InitOf(Shared)

SpecShared == InitShared /\ [][Next]_vars

InitThrowing == \E program \in {Chain, Shared} : InitOf(program)

SpecThrowing == InitThrowing /\ [][Next]_vars

InitSetup == \E program \in {Diamond, Seeded} : InitOf(program)

SpecSetup == InitSetup /\ [][Next]_vars

InitTwins == InitOf(Twins)

SpecTwins == InitTwins /\ [][Next]_vars

InitCyclic == \E program \in {Power, PowerChecked} : InitOf(program)

SpecCyclic == InitCyclic /\ [][Next]_vars

InitLoop == InitOf(Loop)

\* nextFrame (setTimeout or requestAnimationFrame) runs the callback it was
\* handed: a scheduled digest is not put off for ever.
SpecLoop == InitLoop /\ [][Next]_vars /\ WF_vars(Tick)

Init == \E program \in {Chain, Ohm, Effect} : InitOf(program)

Spec == Init /\ [][Next]_vars

\* ------------------------------------------------------------------ properties
\* The latest operation was a digest pass: nothing changed since it ran.
AfterPass == passes >= 1

\* The evaluate calls of the latest pass on property p.
CallsOn(p) == {i \in 1 .. Len(log) : log[i].node = p}

\* The evaluate calls of the latest pass that invoked the callback of b.
Invocations(b) == {i \in 1 .. Len(log) : log[i].b = b /\ log[i].called}

AllLive == \A b \in Bindings : live[b] = "live"

\* C1. Diamond (README "Tricky Case"): when a is the only changed property, the
\* pass invokes the callback of e exactly once, with c and d both computed from
\* the value a has now: c = inc(inc(a)), d = a.
C1_DiamondFreshOnce ==
  (scn.name = "diamond" /\ AllLive /\ AfterPass /\ seed = <<ids[1]>>)
    => /\ Cardinality(CallsOn(5)) = 1
       /\ \A i \in CallsOn(5) :
            /\ log[i].called
            /\ log[i].args = <<Apply(Callback(2), <<Apply(Callback(1), <<value[1]>>)>>),
                               Apply(Callback(3), <<value[1]>>)>>

\* C1 happens: a was set from outside to a new value, and the pass evaluated e.
C1_Witness ==
  /\ scn.name = "diamond" /\ AllLive /\ AfterPass /\ seed = <<ids[1]>>
  /\ 1 \in passIn /\ value[1] = 1
  /\ CallsOn(5) # {}

\* The nodes the edges lead to from the nodes of S, in one step and in any number.
Successors(S) == UNION {SeqRange(edges[u]) : u \in S \cap DOMAIN edges}

RECURSIVE Closure(_)
Closure(S) ==
  LET T == S \cup Successors(S) IN IF T = S THEN S ELSE Closure(T)

Downstream(S) == Closure(Successors(S))

\* A reactive function is affected by a pass when one of its inputs is in the
\* changed set the pass started from, or downstream of it.
Affected(b) ==
  \E i \in 1 .. Len(Inputs(b)) :
    ids[Inputs(b)[i]] \in SeqRange(seed) \cup Downstream(SeqRange(seed))

C3_ChangeDuringPassKept ==
  (AfterPass /\ ~ err)
    => \A b \in Bindings :
         (Invocations(b) # {} /\ scn.defs[b].effect # <<>>
            /\ listeners[scn.defs[b].effect[1]] # <<>>)
           => ids[scn.defs[b].effect[1]] \in changed

\* C4. At most one digest is scheduled, and the debounce flag says whether one is.
C4_AtMostOneScheduled ==
  /\ timers <= 1
  /\ queued <=> (timers = 1)

\* C4 happens: three sets before the tick, one scheduled digest.
C4_Witness ==
  /\ scn.name = "ohm" /\ AllLive
  /\ pending = {1, 2, 3} /\ heard = {1, 2, 3}
  /\ timers = 1

\* The values the inputs of b hold.
InputValues(b) == [i \in 1 .. Len(Inputs(b)) |-> value[Inputs(b)[i]]]

C7_DefinednessGating ==
  [][((ManualDigest \/ Tick) /\ scn.name = "gate" /\ live[1] = "live" /\ changed # {})
       => /\ ~ err'
          /\ Len(log') = 1
          /\ IF value[1] # UNDEF /\ value[2] # UNDEF /\ value[3] # UNDEF
               THEN /\ log'[1].called
                    /\ value'[4] = Apply("sum", <<value[1], value[2], value[3]>>)
               ELSE /\ ~ log'[1].called
                    /\ value'[4] = value[4]]_vars

\* C7 happens: the callback was invoked with null, 0 and false.
C7_Witness ==
  /\ scn.name = "gate" /\ live[1] = "live" /\ AfterPass
  /\ Len(log) = 1 /\ log[1].called
  /\ log[1].args = <<NULL, 0, FALSE_>>
  /\ value[4] = 0

\* The nodes of the edges of the graph that start or end at node n.
EdgesTouching(n) ==
  {<<u, v>> \in (DOMAIN edges) \X (DOMAIN edges) :
     v \in SeqRange(edges[u]) /\ (u = n \/ v = n)}

\* The step destroys b.
Destroys(b) == live[b] = "live" /\ live'[b] = "destroyed"

\* C8 as stated: after destroy() no edge of the graph touches a former input or
\* the former output.
C8_NoEdgeTouches ==
  [][\A b \in Bindings :
       Destroys(b)
         => \A p \in SeqRange(Inputs(b)) \cup {Output(b)} : EdgesTouching(ids[p])' = {}]_vars

\* C8 as amended: after destroy() the graph has no edge from a former input to
\* the former output.
C8_NoEdgeInputToOutput ==
  [][\A b \in Bindings :
       Destroys(b)
         => \A p \in SeqRange(Inputs(b)) :
              ids'[Output(b)] \notin SeqRange(edges'[ids'[p]])]_vars

\* C8 happens: in the diamond a -> b is destroyed while a -> d is live; the edge
\* from a to d is still there, the edge from a to b is not.
C8_Witness ==
  /\ scn.name = "diamond"
  /\ live[1] = "destroyed" /\ live[3] = "live"
  /\ ids[4] \in SeqRange(edges[ids[1]])
  /\ ids[2] \notin SeqRange(edges[ids[1]])

\* No listener of b is subscribed.
NoListenerOf(b) ==
  \A p \in Props : \A k \in 1 .. Len(listeners[p]) : listeners[p][k][1] # b

\* C9. A destroyed reactive function has no listener left and its evaluate
\* closure is attached nowhere; no later pass evaluates it; and a set of a
\* property that only destroyed reactive functions had as input changes neither
\* the changed set nor the scheduler.
C9_DestroyedIsSilent ==
  [][/\ \A b \in Bindings :
          live'[b] = "destroyed"
            => /\ NoListenerOf(b)'
               /\ evaluate'[Output(b)] # b
               /\ b \notin heard' \ heard
               /\ (ManualDigest \/ Tick) => \A i \in 1 .. Len(log') : log'[i].b # b
     /\ \A p \in scn.settable :
          ((\E v \in scn.vals : Set(p, v))
             /\ \A b \in Bindings : p \in SeqRange(Inputs(b)) => live[b] # "live")
            => changed' = changed /\ queued' = queued /\ timers' = timers]_vars

\* C9 happens: both reactive functions of the diamond that had a as input are
\* destroyed, a was set, and nothing is marked or scheduled.
C9_Witness ==
  /\ scn.name = "diamond"
  /\ live[1] = "destroyed" /\ live[3] = "destroyed"
  /\ 1 \in pending
  /\ changed = {} /\ ~ queued /\ timers = 0

\* C10. Ohm's law, all three reactive functions live: when two of V, I, R were
\* set and nothing else is in the changed set, the pass evaluates the third
\* property only, once, invoking its callback with the two values set, and
\* leaves those two values as they are.
C10_OhmComputesThird ==
  [][((ManualDigest \/ Tick) /\ scn.name = "ohm" /\ AllLive
        /\ Cardinality(pending) = 2 /\ changed = {ids[p] : p \in pending}
        /\ \A p \in pending : value[p] # UNDEF)
       => LET third == CHOOSE p \in Props : p \notin pending
          IN /\ Len(log') = 1
             /\ log'[1].node = third /\ Output(log'[1].b) = third
             /\ log'[1].called
             /\ log'[1].args = InputValues(log'[1].b)
             /\ SeqRange(Inputs(log'[1].b)) = pending
             /\ \A p \in pending : value'[p] = value[p]
             /\ value'[third] = Apply(Callback(log'[1].b), InputValues(log'[1].b))]_vars

\* C10 happens: V and R were set while I had a value, and the pass computed I.
C10_Witness ==
  /\ scn.name = "ohm" /\ AllLive /\ AfterPass
  /\ passIn = {1, 3} /\ seed = Ascending({ids[1], ids[3]})
  /\ Len(log) = 1 /\ log[1].node = 2 /\ log[1].called
  /\ value[2] = Apply("sum", <<value[1], value[3]>>)

\* The nodes on a cycle among the nodes of S and the nodes downstream of S.
CyclicNodes(S) == {n \in S \cup Downstream(S) : n \in Downstream({n})}

RECURSIVE ClosureBeside(_, _)
\* The nodes the edges lead to from the nodes of T without passing a node of S.
ClosureBeside(T, S) ==
  LET U == T \cup (Successors(T) \ S) IN IF U = T THEN T ELSE ClosureBeside(U, S)

\* A cycle lies among the nodes downstream of S that are not in S.
CycleBeside(S) ==
  \E n \in ClosureBeside(Successors(S) \ S, S) :
    n \in ClosureBeside(Successors({n}) \ S, S)

C12_UndefinedInputCreatesNothing ==
  [][\A b \in Bindings :
       (Construct(b) /\ ~ Defined(Inputs(b)))
         => /\ err'
            /\ UNCHANGED <<value, ids, counter, nodes, edges, listeners, evaluate,
                           live, changed, queued, timers>>]_vars

\* C12 happens: the constructor call with the undefined input has thrown while
\* three reactive functions are live, a change is recorded and a digest queued.
C12_Witness ==
  /\ scn.name = "twins" /\ ~ Defined(Inputs(4))
  /\ err /\ passes = 0
  /\ live = <<"live", "live", "live", "none">>
  /\ evaluate[Output(4)] = 3
  /\ changed # {} /\ queued

\* Property p is the output of a live reactive function.
LiveOutput(p) == \E b \in Bindings : live[b] = "live" /\ Output(b) = p

\* C13 as stated: a call from outside of the setter of the output of a live
\* reactive function throws and leaves the stored value as it was.
C13_DirectWriteRejected ==
  [][\A p \in scn.settable :
       ((\E v \in scn.vals : Set(p, v)) /\ LiveOutput(p))
         => err' /\ value'[p] = value[p]]_vars

\* C13 as amended: a call from outside of the setter of the output of a live
\* reactive function returns normally and stores the value like any other set:
\* no other value changes, and when the property has listeners it is marked
\* changed and a digest is queued.
C13_DirectWriteStores ==
  [][\A p \in scn.settable : \A v \in scn.vals :
       (Set(p, v) /\ LiveOutput(p))
         => /\ ~ err'
            /\ value' = [value EXCEPT ![p] = v]
            /\ listeners[p] # <<>> => (ids[p] \in changed' /\ queued')]_vars

\* C13 happens: V of Ohm's law, the output of a live reactive function, holds
\* the value just set from outside, which differs from what its callback gives.
C13_Witness ==
  /\ scn.name = "ohm" /\ AllLive /\ ~ err /\ passes = 0
  /\ pending = {1} /\ value[1] = 1
  /\ value[2] # UNDEF /\ value[3] # UNDEF
  /\ value[1] # Apply(Callback(1), InputValues(1))

C15_LiveEdgesPresent ==
  \A b \in Bindings :
    live[b] = "live"
      => \A i \in 1 .. Len(Inputs(b)) :
           ids[Output(b)] \in SeqRange(edges[ids[Inputs(b)[i]]])

\* The latest pass was ended by a callback that threw: the last evaluate call of
\* the pass invoked a throwing callback.
ThrewInCallback ==
  /\ err /\ log # <<>>
  /\ Callback(log[Len(log)].b) = "throw" /\ log[Len(log)].called

\* C16 as stated: a pass does not fail because a property of the order has no
\* evaluate function; when a pass throws, a callback threw.
C16_NoFailureForMissingEvaluate ==
  (AfterPass /\ err) => ThrewInCallback

\* The evaluate calls of the latest pass that invoked a throwing callback.
Throws == {i \in 1 .. Len(log) : Callback(log[i].b) = "throw" /\ log[i].called}

\* C17. When a callback throws during a pass, the pass ends there and throws:
\* the evaluate calls of the pass are the properties of the order up to the
\* throwing one, the properties evaluated before it hold what their callbacks
\* returned, the throwing one and the properties after it in the order hold
\* what they held, and after a scheduled pass the debounce flag is set only for
\* the digest queued by the writes of the pass.
C17_ThrowEndsThePass ==
  [][((ManualDigest \/ Tick) /\ Throws' # {})
       => LET order == TopologicalSort(St, Ascending(changed))
              k == Len(log')
          IN /\ err'
             /\ Throws' = {k}
             /\ k <= Len(order)
             /\ \A i \in 1 .. k : ids[log'[i].node] = order[i]
             /\ \A i \in 1 .. (k - 1) :
                  value'[log'[i].node] =
                    IF log'[i].called THEN Apply(Callback(log'[i].b), log'[i].args)
                                      ELSE value[log'[i].node]
             /\ \A j \in k .. Len(order) :
                  value'[PropertyOf(St, order[j])] = value[PropertyOf(St, order[j])]
             /\ Tick => /\ queued' = (changed' # {})
                         /\ timers' = IF changed' # {} THEN 1 ELSE 0]_vars

\* C17 happens: with x changed the order is w, z, o; the pass wrote w, the
\* callback of z threw, and o was not evaluated.
C17_Witness ==
  /\ scn.name = "shared" /\ AllLive /\ AfterPass /\ err
  /\ passIn = {1} /\ seed = <<ids[1]>>
  /\ Len(log) = 2 /\ Throws = {2}
  /\ log[1].node = 4 /\ log[1].called /\ value[4] = value[1]
  /\ log[2].node = 5 /\ value[5] = UNDEF
  /\ CallsOn(3) = {} /\ value[3] # value[1]

\* C18. A pass calls evaluate only on properties the edges lead to from the
\* changed set it starts from; the output of a live reactive function that is
\* not among them is not evaluated and holds after the pass what it held before.
C18_OnlyDownstreamEvaluated ==
  [][(ManualDigest \/ Tick)
       => /\ \A i \in 1 .. Len(log') : ids[log'[i].node] \in Downstream(changed)
          /\ \A b \in Bindings :
               (live[b] = "live" /\ ids[Output(b)] \notin Downstream(changed))
                 => /\ \A i \in 1 .. Len(log') :
                         log'[i].b # b /\ log'[i].node # Output(b)
                    /\ value'[Output(b)] = value[Output(b)]]_vars

\* C18 happens: b of the chain was set to a value its callback does not give;
\* the pass evaluated c and d, and left b, which is upstream of the change, alone.
C18_Witness ==
  /\ scn.name = "chain" /\ AllLive /\ AfterPass /\ ~ err
  /\ passIn = {2} /\ seed = <<ids[2]>>
  /\ CallsOn(2) = {} /\ Invocations(2) # {} /\ Invocations(3) # {}
  /\ value[1] # UNDEF /\ value[2] # Apply(Callback(1), <<value[1]>>)

\* The number of edges of the graph that end or start at node n.
Degree(n) == SumOver(DOMAIN edges, edges, n) + Len(edges[n])

\* The properties reactive function b names: its inputs and its output.
PropertiesOf(b) == SeqRange(Inputs(b)) \cup {Output(b)}

\* C19 as stated: every node of the graph has an edge; destroy() removes the
\* node of an input or of the output exactly when no edge is left at it, and
\* leaves in the graph the nodes of every other live reactive function.
C19_NodesConnected ==
  [][/\ \A n \in nodes' : Degree(n)' >= 1
     /\ \A b \in Bindings :
          Destroys(b)
            => /\ \A p \in PropertiesOf(b) :
                    ids[p] \in nodes => (ids[p] \notin nodes' <=> Degree(ids[p])' = 0)
               /\ \A c \in Bindings \ {b} :
                    live[c] = "live" => \A p \in PropertiesOf(c) : ids[p] \in nodes']_vars

\* C20. Whenever the changed set is not empty, the debounce flag is set and one
\* digest is scheduled.
C20_ChangedImpliesQueued ==
  changed # {} => (queued /\ timers = 1)

\* C20 happens: a pass has thrown after it wrote w; w is in the changed set,
\* and the write has queued the next digest.
C20_Witness ==
  /\ scn.name = "shared" /\ AfterPass /\ err /\ Throws # {}
  /\ heardIn # {}
  /\ changed = {ids[4]} /\ queued /\ timers = 1

\* Nothing is left to do: no change recorded, no digest scheduled.
Quiescent == changed = {} /\ ~ queued /\ timers = 0

\* C21 as stated: once the application has stopped setting properties,
\* constructing, destroying and calling digest, so that only scheduled digests
\* run, the program comes to rest for good with an empty changed set and no
\* digest scheduled.  (No callback of the program checked throws.)
C21_Quiescence ==
  <>[][Tick]_vars => <>[]Quiescent

====
